---- MODULE Spec2Model ----
(***************************************************************************)
(* Model of landmarkerio/cache.py: the incremental cache builder.          *)
(*                                                                         *)
(* The asset directory is a set of source paths; a path is a record        *)
(* [stem, type]: a.jpg and a.png are two image paths with the same stem,   *)
(* a.obj (plain) and a.ply (textured) two mesh paths with the same stem.   *)
(* The cache directory is a function from the names os.listdir returns to  *)
(* the entry stored under that name; an entry is the set of file names     *)
(* present in the subdirectory (a file a failed write left behind is       *)
(* present).                                                               *)
(* One build (build_cache) is a sequence of steps; every I/O step may      *)
(* fail, which ends the build with the exception in err.                   *)
(***************************************************************************)
EXTENDS Integers, Sequences, FiniteSets, TLC

\* ---------------------------------------------------------------- bounds
MaxStem == 2        \* asset ids are the stems 1..MaxStem
MaxAssets == 2      \* at most this many files in the asset directory
MaxRuns == 2        \* at most this many builds in one behaviour
MaxDim == 160       \* image sides range over 1..ThumbnailWidth + MaxDim

\* ------------------------------------------------------- program constants
IMAGE_INFO_FILENAME == "image-info"
TEXTURE_FILENAME == "texture"
THUMBNAIL_FILENAME == "thumbnail"
MESH_FILENAME == "mesh"
ThumbnailWidth == 640

Stems == 1..MaxStem
ImageTypes == {"jpg", "png"}
MeshTypes == {"plain", "textured"}
AllPaths == [stem : Stems, type : ImageTypes \cup MeshTypes]
Kinds == {"image", "mesh"}

\* one enumeration for both builds: every file of the directory
PathsOfKind_all(files, k) == files

\* mio.image_paths / mio.mesh_paths: the files of the build's kind
PathsOfKind(files, k) ==
    {q \in files : q.type \in (IF k = "image" THEN ImageTypes ELSE MeshTypes)}

\* the id taken from the directory, which the files of one directory share
asset_id_for_path_parent(fp) == 1

\* Path(fp).stem
asset_id_for_path(fp) == fp.stem

NoError == [type |-> "none"]
EmptyDir == <<>>         \* a directory listing with no name
EmptyEntry == {}
NoPrev == [ran |-> FALSE]
NoThumb == <<>>
Dims == 1..(ThumbnailWidth + MaxDim)

\* every order in which a set can be iterated
RECURSIVE Orders(_)
Orders(S) ==
    IF S = {} THEN {<<>>}
    ELSE UNION {{<<x>> \o t : t \in Orders(S \ {x})} : x \in S}

Range(f) == {f[x] : x \in DOMAIN f}

VARIABLES
    assetDirOK,     \* p.isdir(asset_dir)
    assets,         \* the source files under asset_dir
    cacheDir,       \* "absent", "dir", or "file" (the path is not a directory)
    cache,          \* os.listdir(cache_dir) |-> entry
    pc,             \* position of the build
    kind,           \* which build runs: image or mesh
    todo,           \* paths the enumerator has not yielded yet
    asset_id_to_paths,
    diffed,         \* the build has computed uncached
    uncached,
    path_asset_id,
    i,              \* enumerate index of serial_cacher
    err,            \* the exception that ended the build
    log,            \* progress messages and cache calls of this build
    start,          \* asset and cache directory at the start of this build
    prev,           \* summary of the build before this one
    run,            \* number of builds started
    img,            \* size of the image handed to save_jpg_thumbnail_file
    thumb,          \* size of the thumbnail it saved, or NoThumb
    partial         \* ids whose entry a failed build left after os.mkdir

vars == <<assetDirOK, assets, cacheDir, cache, pc, kind, todo,
          asset_id_to_paths, diffed, uncached, path_asset_id, i, err, log,
          start, prev, run, img, thumb, partial>>

envVars == <<assetDirOK, assets, img, thumb>>
buildVars == <<kind, todo, asset_id_to_paths, diffed, uncached,
               path_asset_id, i, log, start, prev, run>>

\* everything but the directories' contents and the image
InitBuild ==
    /\ cache = EmptyDir
    /\ pc = "idle"
    /\ kind = "image"
    /\ todo = {}
    /\ asset_id_to_paths = <<>>
    /\ diffed = FALSE
    /\ uncached = {}
    /\ path_asset_id = <<>>
    /\ i = 0
    /\ err = NoError
    /\ log = <<>>
    /\ start = [assets |-> {}, cache |-> EmptyDir]
    /\ prev = NoPrev
    /\ run = 0
    /\ thumb = NoThumb
    /\ partial = {}

\* The builder never compares two ids but for equality, so a directory is
\* taken up to a renaming of its stems: the stems in use are 1..k.
StemsOf(S) == {asset_id_for_path(a) : a \in S}

Init ==
    /\ assetDirOK \in BOOLEAN
    /\ assets \in {S \in SUBSET AllPaths :
                      /\ Cardinality(S) <= MaxAssets
                      /\ StemsOf(S) = 1..Cardinality(StemsOf(S))}
    /\ (~assetDirOK => assets = {})
    /\ cacheDir \in {"absent", "dir", "file"}
    /\ img = [w |-> 800, h |-> 600]
    /\ InitBuild

\* ------------------------------------------------------------ build_cache
\* the isdir test left out
ensure_asset_dir_unchecked == TRUE

\* build_cache, step 1: ensure_asset_dir raises ValueError unless asset_dir
\* is a directory.
ensure_asset_dir_ok == assetDirOK

StartBuild(k) ==
    /\ pc = "idle"
    /\ run < MaxRuns
    /\ run' = run + 1
    /\ kind' = k
    /\ prev' = IF run = 0 THEN NoPrev
               ELSE [ran |-> TRUE, kind |-> kind, start |-> start,
                     ok |-> (err = NoError), diffed |-> diffed,
                     order |-> path_asset_id]
    /\ start' = [assets |-> assets, cache |-> cache]
    /\ todo' = {}
    /\ asset_id_to_paths' = <<>>
    /\ diffed' = FALSE
    /\ uncached' = {}
    /\ path_asset_id' = <<>>
    /\ i' = 0
    /\ log' = <<>>
    /\ IF ensure_asset_dir_ok
       THEN /\ pc' = "ensure_cache_dir"
            /\ err' = NoError
       ELSE /\ pc' = "idle"
            /\ err' = [type |-> "ValueError"]
    /\ UNCHANGED <<envVars, partial, cacheDir, cache>>

\* the warning printed but the directory not made
ensure_cache_dir_nomkdir ==
    /\ pc = "ensure_cache_dir"
    /\ IF cacheDir = "file"
       THEN /\ pc' = "idle"
            /\ err' = [type |-> "OSError"]
            /\ UNCHANGED <<cacheDir, todo>>
       ELSE /\ cacheDir' = cacheDir
            /\ pc' = "build_asset_mapping"
            /\ todo' = PathsOfKind(assets, kind)
            /\ err' = err
    /\ UNCHANGED <<envVars, partial, cache, kind, asset_id_to_paths, diffed,
                   uncached, path_asset_id, i, log, start, prev, run>>

\* ensure_cache_dir: os.mkdir unless the path is a directory; os.mkdir
\* raises OSError when the path exists and is not a directory.  Then the
\* enumerator is called on the asset directory.
ensure_cache_dir ==
    /\ pc = "ensure_cache_dir"
    /\ IF cacheDir = "file"
       THEN /\ pc' = "idle"
            /\ err' = [type |-> "OSError"]
            /\ UNCHANGED <<cacheDir, todo>>
       ELSE /\ cacheDir' = "dir"
            /\ pc' = "build_asset_mapping"
            /\ todo' = PathsOfKind(assets, kind)
            /\ err' = err
    /\ UNCHANGED <<envVars, partial, cache, kind, asset_id_to_paths, diffed, uncached,
                   path_asset_id, i, log, start, prev, run>>

\* the uniqueness check left out: a later path replaces an earlier one
build_asset_mapping_overwrite ==
    /\ pc = "build_asset_mapping"
    /\ \E path \in todo :
        LET asset_id == asset_id_for_path(path) IN
        /\ todo' = todo \ {path}
        /\ asset_id_to_paths' =
              [x \in DOMAIN asset_id_to_paths \cup {asset_id} |->
                 IF x = asset_id THEN path ELSE asset_id_to_paths[x]]
        /\ UNCHANGED <<err, pc>>
    /\ UNCHANGED <<envVars, partial, cacheDir, cache, kind, diffed, uncached,
                   path_asset_id, i, log, start, prev, run>>

\* build_asset_mapping: one iteration of the loop over the enumerated
\* paths, in the order the enumerator yields them.
build_asset_mapping ==
    /\ pc = "build_asset_mapping"
    /\ \E path \in todo :
        LET asset_id == asset_id_for_path(path) IN
        /\ todo' = todo \ {path}
        /\ IF asset_id \in DOMAIN asset_id_to_paths
           THEN /\ err' = [type |-> "RuntimeError", asset_id |-> asset_id,
                           first |-> asset_id_to_paths[asset_id],
                           second |-> path]
                /\ pc' = "idle"
                /\ UNCHANGED asset_id_to_paths
           ELSE /\ asset_id_to_paths' =
                     [x \in DOMAIN asset_id_to_paths \cup {asset_id} |->
                        IF x = asset_id THEN path ELSE asset_id_to_paths[x]]
                /\ UNCHANGED <<err, pc>>
    /\ UNCHANGED <<envVars, partial, cacheDir, cache, kind, diffed, uncached,
                   path_asset_id, i, log, start, prev, run>>

\* only entries that hold a file count as cached
Cached_nonempty(c) == {x \in DOMAIN c : c[x] # {}}

\* cached = set(os.listdir(cache_dir))
Cached(c) == DOMAIN c

\* the diff forgotten: every id of the mapping is taken as uncached
Uncached_nodiff(asset_ids, cached) == asset_ids

\* uncached = asset_ids - cached
Uncached(asset_ids, cached) == asset_ids \ cached

\* build_cache lines 173-182: the diff against os.listdir(cache_dir) and the
\* list comprehension over the set uncached, whose iteration order the
\* language leaves open.
cache_diff ==
    /\ pc = "build_asset_mapping"
    /\ todo = {}
    /\ LET asset_ids == DOMAIN asset_id_to_paths
           cached == Cached(cache)
           u == Uncached(asset_ids, cached)
       IN /\ uncached' = u
          /\ \E order \in Orders(u) :
               path_asset_id' = [n \in 1..Len(order) |->
                                   <<asset_id_to_paths[order[n]], order[n]>>]
    /\ diffed' = TRUE
    /\ i' = 0
    /\ pc' = "serial_cacher"
    /\ UNCHANGED <<envVars, partial, cacheDir, cache, kind, todo, asset_id_to_paths,
                   err, log, start, prev, run>>

\* ----------------------------------------------------------- serial_cacher
\* the call made before its progress message is printed
serial_cacher_call_first ==
    /\ pc = "serial_cacher"
    /\ i < Len(path_asset_id)
    /\ LET path == path_asset_id[i + 1][1]
           asset_id == path_asset_id[i + 1][2]
       IN log' = log \o << <<"call", path, asset_id>>,
                           <<"progress", i + 1, Len(path_asset_id), asset_id>> >>
    /\ pc' = "cache_asset"
    /\ UNCHANGED <<envVars, partial, cacheDir, cache, kind, todo,
                   asset_id_to_paths, diffed, uncached, path_asset_id, i, err,
                   start, prev, run>>

\* one iteration: print the progress message, then call cache(path, id)
serial_cacher ==
    /\ pc = "serial_cacher"
    /\ i < Len(path_asset_id)
    /\ LET path == path_asset_id[i + 1][1]
           asset_id == path_asset_id[i + 1][2]
       IN log' = log \o << <<"progress", i + 1, Len(path_asset_id), asset_id>>,
                           <<"call", path, asset_id>> >>
    /\ pc' = "cache_asset"
    /\ UNCHANGED <<envVars, partial, cacheDir, cache, kind, todo, asset_id_to_paths,
                   diffed, uncached, path_asset_id, i, err, start, prev, run>>

\* the loop stops one pair short
build_cache_return_early ==
    /\ pc = "serial_cacher"
    /\ i >= Len(path_asset_id) - 1
    /\ pc' = "idle"
    /\ UNCHANGED <<envVars, partial, cacheDir, cache, kind, todo,
                   asset_id_to_paths, diffed, uncached, path_asset_id, i, err,
                   log, start, prev, run>>

\* the loop is exhausted: serial_cacher returns, build_cache returns cache_dir
build_cache_return ==
    /\ pc = "serial_cacher"
    /\ i = Len(path_asset_id)
    /\ pc' = "idle"
    /\ UNCHANGED <<envVars, partial, cacheDir, cache, kind, todo, asset_id_to_paths,
                   diffed, uncached, path_asset_id, i, err, log, start, prev,
                   run>>

CurPath == path_asset_id[i + 1][1]
CurId == path_asset_id[i + 1][2]

WriteFile(entry, name) == entry \cup {name}

\* the entry replaces the listing instead of joining it
PutEntry_alone(c, asset_id, entry) == [x \in {asset_id} |-> entry]

PutEntry(c, asset_id, entry) ==
    [x \in DOMAIN c \cup {asset_id} |-> IF x = asset_id THEN entry ELSE c[x]]

\* ------------------------------------------------------------- cache_asset
\* os.mkdir(asset_cache_dir) unless it is a directory, then cache_f
cache_asset ==
    /\ pc = "cache_asset"
    /\ cache' = IF CurId \in DOMAIN cache THEN cache
                ELSE PutEntry(cache, CurId, EmptyEntry)
    /\ pc' = "import"
    /\ UNCHANGED <<envVars, partial, cacheDir, buildVars, err>>

\* the exception is recorded but the loop of serial_cacher goes on
Raise_swallowed(e) ==
    /\ err' = [type |-> e, asset_id |-> CurId]
    /\ pc' = "serial_cacher"

\* the build ends with an exception
Raise(e) ==
    /\ err' = [type |-> e, asset_id |-> CurId]
    /\ pc' = "idle"

\* os.mkdir fails
cache_asset_mkdir_fails ==
    /\ pc = "cache_asset"
    /\ CurId \notin DOMAIN cache
    /\ Raise("MkdirError")
    /\ UNCHANGED <<envVars, partial, cacheDir, cache, buildVars>>

\* after _cache_image_for_id: cache_image returns to serial_cacher,
\* cache_mesh goes on to _cache_mesh_for_id
AfterImage == IF kind = "mesh" THEN "mesh" ELSE "serial_cacher"

\* the isinstance test left out: every mesh takes the image steps
import_asset_always_image ==
    /\ pc = "import"
    /\ pc' = "image_info"
    /\ UNCHANGED <<envVars, partial, cacheDir, cache, buildVars, err>>

\* cache_image line 82 and cache_mesh lines 118-119: decode the source;
\* only a TexturedTriMesh takes the image steps of cache_mesh
import_asset ==
    /\ pc = "import"
    /\ pc' = IF kind = "mesh" /\ CurPath.type # "textured"
             THEN "mesh" ELSE "image_info"
    /\ UNCHANGED <<envVars, partial, cacheDir, cache, buildVars, err>>

\* mio.import_image / mio.import_mesh fails
import_fails ==
    /\ pc = "import"
    /\ Raise("DecodeError")
    /\ partial' = partial \cup {CurId}
    /\ UNCHANGED <<envVars, cacheDir, cache, buildVars>>

\* the metadata json left out
write_image_info_skipped ==
    /\ pc = "image_info"
    /\ cache' = cache
    /\ pc' = "texture"
    /\ UNCHANGED <<envVars, partial, cacheDir, buildVars, err>>

\* _cache_image_for_id step 1: the metadata json
write_image_info ==
    /\ pc = "image_info"
    /\ cache' = PutEntry(cache, CurId,
                         WriteFile(cache[CurId], IMAGE_INFO_FILENAME))
    /\ pc' = "texture"
    /\ UNCHANGED <<envVars, partial, cacheDir, buildVars, err>>

\* _cache_image_for_id step 2: a jpg source is copied, any other is encoded
\* as jpeg; both branches write the texture file
write_texture ==
    /\ pc = "texture"
    /\ cache' = PutEntry(cache, CurId,
                         WriteFile(cache[CurId], TEXTURE_FILENAME))
    /\ pc' = "thumbnail"
    /\ UNCHANGED <<envVars, partial, cacheDir, buildVars, err>>

\* _cache_image_for_id step 3: save_jpg_thumbnail_file
write_thumbnail ==
    /\ pc = "thumbnail"
    /\ cache' = PutEntry(cache, CurId,
                         WriteFile(cache[CurId], THUMBNAIL_FILENAME))
    /\ pc' = AfterImage
    /\ i' = IF AfterImage = "serial_cacher" THEN i + 1 ELSE i
    /\ UNCHANGED <<envVars, partial, cacheDir, kind, todo, asset_id_to_paths, diffed,
                   uncached, path_asset_id, err, log, start, prev, run>>

\* _cache_mesh_for_id: the gzipped json of the mesh
write_mesh ==
    /\ pc = "mesh"
    /\ cache' = PutEntry(cache, CurId,
                         WriteFile(cache[CurId], MESH_FILENAME))
    /\ pc' = "serial_cacher"
    /\ i' = i + 1
    /\ UNCHANGED <<envVars, partial, cacheDir, kind, todo, asset_id_to_paths, diffed,
                   uncached, path_asset_id, err, log, start, prev, run>>

FileOfStep(step) ==
    CASE step = "image_info" -> IMAGE_INFO_FILENAME
      [] step = "texture" -> TEXTURE_FILENAME
      [] step = "thumbnail" -> THUMBNAIL_FILENAME
      [] step = "mesh" -> MESH_FILENAME

WriteSteps == {"image_info", "texture", "thumbnail", "mesh"}

\* a write fails: either the file could not be opened, or it was created and
\* the write stopped part way
write_fails ==
    /\ pc \in WriteSteps
    /\ \/ cache' = cache
       \/ cache' = PutEntry(cache, CurId,
                            WriteFile(cache[CurId], FileOfStep(pc)))
    /\ Raise("IOError")
    /\ partial' = partial \cup {CurId}
    /\ UNCHANGED <<envVars, cacheDir, buildVars>>

\* ------------------------------------------------------------ environment
\* between two builds one source file that has an entry in the cache
\* directory is deleted
DeleteAsset ==
    /\ pc = "idle"
    /\ run > 0
    /\ run < MaxRuns
    /\ assets = start.assets
    /\ \E q \in assets :
         /\ asset_id_for_path(q) \in DOMAIN cache
         /\ assets' = assets \ {q}
    /\ UNCHANGED <<assetDirOK, img, thumb, partial, cacheDir, cache, pc,
                   buildVars, err>>

Next ==
    \/ \E k \in Kinds : StartBuild(k)
    \/ ensure_cache_dir
    \/ build_asset_mapping
    \/ cache_diff
    \/ serial_cacher
    \/ build_cache_return
    \/ cache_asset
    \/ cache_asset_mkdir_fails
    \/ import_asset
    \/ import_fails
    \/ write_image_info
    \/ write_texture
    \/ write_thumbnail
    \/ write_mesh
    \/ write_fails
    \/ DeleteAsset

Spec == Init /\ [][Next]_vars

\* ------------------------------------------------- save_jpg_thumbnail_file
\* ip.resize((width, int(h2w * width))) with h2w = h * 1. / w.  int()
\* truncates; for the sizes of Dims the double product truncates to the
\* integer quotient (h * width) \div w.
\* the height rounded to nearest instead of truncated
ThumbnailSize_rounded(w, h, width) == <<width, (2 * h * width + w) \div (2 * w)>>

ThumbnailSize(w, h, width) == <<width, (h * width) \div w>>

save_jpg_thumbnail_file ==
    /\ thumb = NoThumb
    /\ thumb' = ThumbnailSize(img.w, img.h, ThumbnailWidth)
    /\ UNCHANGED <<assetDirOK, assets, img, partial, cacheDir, cache, pc,
                   buildVars, err>>

\* the thumbnail function alone, applied to every image size of Dims
InitThumb ==
    /\ assetDirOK = TRUE
    /\ assets = {}
    /\ cacheDir = "dir"
    /\ img \in [w : Dims, h : Dims]
    /\ InitBuild

NextThumb == save_jpg_thumbnail_file

SpecThumb == InitThumb /\ [][NextThumb]_vars

\* ================================================================= claims
\* asset ids for which serial_cacher has called cache in this build
Calls == {log[n][3] : n \in {m \in 1..Len(log) : log[m][1] = "call"}}

OrderIds == [n \in 1..Len(path_asset_id) |-> path_asset_id[n][2]]

DistinctStems(S) == \A a, b \in S : a.stem = b.stem => a = b

\* the build ended with an exception raised while caching one asset
PerAssetError == err.type \in {"MkdirError", "DecodeError", "IOError"}

Finished == pc = "idle" /\ run > 0

\* this build follows one of the same kind on an unchanged asset directory
\* whose enumerated paths have distinct stems
SecondOfTwo ==
    /\ prev.ran
    /\ prev.kind = kind
    /\ prev.start.assets = start.assets
    /\ DistinctStems(PathsOfKind(start.assets, kind))
    /\ diffed

C2_FailingAssetUncached ==
    (Finished /\ PerAssetError) =>
        /\ \A n \in 1..i : OrderIds[n] \in DOMAIN cache
        /\ \A n \in (i + 1)..Len(OrderIds) : OrderIds[n] \notin DOMAIN cache

\* C3: when caching fails on the k-th of n uncached assets, the build ends
\* with that error, the caching function was called for assets 1..k only,
\* entries exist for assets 1..k-1 and none for assets k+1..n.
C3_HaltOnFirstError ==
    PerAssetError =>
        /\ pc = "idle"
        /\ i < Len(OrderIds)
        /\ err.asset_id = OrderIds[i + 1]
        /\ Calls = {OrderIds[n] : n \in 1..(i + 1)}
        /\ Len(log) = 2 * (i + 1)
        /\ \A n \in 1..i : OrderIds[n] \in DOMAIN cache
        /\ \A n \in (i + 2)..Len(OrderIds) : OrderIds[n] \notin DOMAIN cache

\* a failure on an asset that has both a predecessor and a successor needs
\* three uncached assets; with two, the failure is on the first or the last
C3_Witness ==
    /\ PerAssetError
    /\ Len(OrderIds) >= 2
    /\ (i >= 1 \/ Len(OrderIds) > i + 1)

\* C4: an id whose subdirectory a stopped build left behind is, in every
\* later build, excluded from the uncached set, never handed to the caching
\* function, and its entry keeps exactly the files it had.
C4_PartialEntryIsCached ==
    \A id \in partial :
        /\ id \in DOMAIN cache
        /\ id \in DOMAIN start.cache =>
              /\ id \notin uncached
              /\ id \notin Calls
              /\ cache[id] = start.cache[id]

\* a later build of the same kind, with the source still there, has finished
\* without error and the entry is still without its files
C4_Witness ==
    /\ Finished
    /\ err = NoError
    /\ diffed
    /\ \E id \in partial :
          /\ id \in DOMAIN start.cache
          /\ id \in DOMAIN asset_id_to_paths
          /\ prev.ran /\ prev.kind = kind
          /\ cache[id] = {}

\* C5: two enumerated paths with the same stem make build_asset_mapping fail
\* when the second one is reached, the error names the first-seen path and
\* the second path, and the build calls the caching function for no asset
\* and leaves every entry of the cache directory as it was.
C5_DuplicateIdFatal ==
    /\ diffed => DistinctStems(PathsOfKind(start.assets, kind))
    /\ err.type = "RuntimeError" =>
          /\ pc = "idle"
          /\ ~diffed
          /\ err.first # err.second
          /\ {err.first, err.second} \subseteq PathsOfKind(start.assets, kind)
          /\ asset_id_for_path(err.first) = err.asset_id
          /\ asset_id_for_path(err.second) = err.asset_id
          /\ asset_id_to_paths[err.asset_id] = err.first
          /\ Range(asset_id_to_paths)
                = (PathsOfKind(start.assets, kind) \ todo) \ {err.second}
          /\ DistinctStems(Range(asset_id_to_paths))
          /\ log = <<>>
          /\ cache = start.cache

\* a build has ended on the second of two paths with the same stem, in a
\* cache directory that ensure_cache_dir had to create
C5_Witness ==
    /\ err.type = "RuntimeError"
    /\ Finished
    /\ Cardinality(PathsOfKind(start.assets, kind)) >= 2
    /\ cacheDir = "dir"

\* C6: a build calls the caching function only for ids absent from the cache
\* directory at its start, and every entry present at its start is still
\* there with the same files, also when its id has no source asset any more.
C6_EntriesNeverTouched ==
    /\ Calls \cap DOMAIN start.cache = {}
    /\ \A id \in DOMAIN start.cache :
          id \in DOMAIN cache /\ cache[id] = start.cache[id]

\* a build that cached an asset has finished while an entry whose source was
\* deleted was in the cache directory
C6_Witness ==
    /\ Finished
    /\ Calls # {}
    /\ err = NoError
    /\ \E id \in DOMAIN start.cache :
          \A a \in start.assets : a.stem # id

\* C7: the ids handed to the orchestrator are the ids of the mapping minus
\* the names listed in the cache directory at the start of the build, each
\* once and paired with its mapped path; after a build that completes without
\* error every id of the mapping has an entry.
C7_CacheDiff ==
    diffed =>
        /\ DOMAIN asset_id_to_paths
              = {asset_id_for_path(a) : a \in PathsOfKind(start.assets, kind)}
        /\ uncached = DOMAIN asset_id_to_paths \ DOMAIN start.cache
        /\ {OrderIds[n] : n \in 1..Len(OrderIds)} = uncached
        /\ Len(OrderIds) = Cardinality(uncached)
        /\ \A n \in 1..Len(path_asset_id) :
              path_asset_id[n][1] = asset_id_to_paths[path_asset_id[n][2]]
        /\ (Finished /\ err = NoError)
              => DOMAIN asset_id_to_paths \subseteq DOMAIN cache

\* a build has completed whose diff removed an id and kept another
C7_Witness ==
    /\ Finished
    /\ err = NoError
    /\ diffed
    /\ uncached # {}
    /\ uncached # DOMAIN asset_id_to_paths

\* C8: two builds of the same kind started from the same asset directory and
\* the same cache directory contents process the uncached ids in the same
\* order.
C8_DeterministicOrder ==
    (prev.ran /\ prev.diffed /\ diffed /\ prev.kind = kind
        /\ prev.start = start)
        => path_asset_id = prev.order

C10_MeshFileSet ==
    (kind = "mesh" /\ diffed) =>
        \A n \in 1..i :
            cache[path_asset_id[n][2]] =
                IF path_asset_id[n][1].type = "textured"
                THEN {"image-info", "texture", "thumbnail", "mesh"}
                ELSE {"mesh"}

\* one mesh build has cached a textured mesh and a plain mesh
C10_Witness ==
    /\ kind = "mesh"
    /\ Finished
    /\ i = 2
    /\ {path_asset_id[n][1].type : n \in 1..2} = {"plain", "textured"}

\* C11: when asset_dir is not a directory the build fails before the cache
\* directory is created, before paths are enumerated and before any asset is
\* cached; when the cache_dir path is not usable as a directory the build
\* fails in ensure_cache_dir, before any asset is cached.
C11_ValidationFirst ==
    [][/\ ~assetDirOK =>
             /\ cacheDir' = cacheDir
             /\ cache' = cache
             /\ todo' = {}
             /\ log' = <<>>
             /\ pc' = "idle"
             /\ run' > run => err'.type = "ValueError"
       /\ cacheDir = "file" =>
             /\ cacheDir' = "file"
             /\ cache' = cache
             /\ todo' = {}
             /\ log' = <<>>
             /\ pc = "ensure_cache_dir" =>
                   (pc' = "idle" /\ err'.type = "OSError")
             /\ pc' \in {"idle", "ensure_cache_dir"}]_vars

\* a build on a missing asset directory has failed and the cache directory
\* is still absent
C11_Witness ==
    /\ ~assetDirOK
    /\ Finished
    /\ err.type = "ValueError"
    /\ cacheDir = "absent"

\* C12: on N enumerated paths with pairwise-distinct stems
\* build_asset_mapping raises no error and returns a mapping of exactly N
\* entries in which each path's stem maps to that path.
C12_MappingOfDistinctStems ==
    LET P == PathsOfKind(start.assets, kind) IN
    DistinctStems(P) =>
        /\ err.type # "RuntimeError"
        /\ pc = "build_asset_mapping" => Range(asset_id_to_paths) = P \ todo
        /\ diffed =>
              /\ Cardinality(DOMAIN asset_id_to_paths) = Cardinality(P)
              /\ \A a \in P :
                    /\ a.stem \in DOMAIN asset_id_to_paths
                    /\ asset_id_to_paths[a.stem] = a

\* the mapping of two paths with different stems has been built
C12_Witness ==
    /\ diffed
    /\ Cardinality(PathsOfKind(start.assets, kind)) = 2
    /\ DistinctStems(PathsOfKind(start.assets, kind))
    /\ Cardinality(DOMAIN asset_id_to_paths) = 2

\* the build is inside the call cache(path, asset_id) of pair i + 1
InCall == pc \in {"cache_asset", "import", "image_info", "texture",
                  "thumbnail", "mesh"}

\* C13: serial_cacher takes the pairs one at a time in list order; for the
\* k-th pair it prints the progress message with k, the total and the id,
\* then calls the caching function on the pair, and it starts pair k + 1 only
\* after that call has returned.
C13_SerialOrder ==
    /\ \A n \in 1..Len(log) :
          LET k == (n + 1) \div 2 IN
          /\ k <= Len(path_asset_id)
          /\ log[n] = IF n % 2 = 1
                      THEN <<"progress", k, Len(path_asset_id),
                             path_asset_id[k][2]>>
                      ELSE <<"call", path_asset_id[k][1], path_asset_id[k][2]>>
    /\ pc = "serial_cacher" => Len(log) = 2 * i
    /\ InCall => Len(log) = 2 * (i + 1)
    /\ Len(log) \in {2 * i, 2 * (i + 1)}

\* the second pair of a list of two is being cached
C13_Witness ==
    /\ InCall
    /\ i = 1
    /\ Len(path_asset_id) = 2
    /\ Len(log) = 4

\* C14: when asset_dir is a directory and the enumeration yields no path,
\* the build creates cache_dir if it is absent, creates no subdirectory in
\* it, never calls the caching function, raises no error and returns.
C14_EmptyInput ==
    (/\ run > 0
     /\ assetDirOK
     /\ cacheDir # "file"
     /\ PathsOfKind(start.assets, kind) = {})
        => /\ err = NoError
           /\ cache = start.cache
           /\ log = <<>>
           /\ path_asset_id = <<>>
           /\ pc \in {"ensure_cache_dir", "build_asset_mapping",
                      "serial_cacher", "idle"}
           /\ pc # "ensure_cache_dir" => cacheDir = "dir"
           /\ pc = "idle" => diffed

\* a build of an asset directory without a file has returned, and the cache
\* directory, which holds no name, exists
C14_Witness ==
    /\ Finished
    /\ assetDirOK
    /\ start.assets = {}
    /\ err = NoError
    /\ diffed
    /\ cacheDir = "dir"
    /\ DOMAIN cache = {}

\* C15: in every reachable state, also after a failure between two writes,
\* an entry with the thumbnail has the texture, an entry with the texture
\* has the metadata file, files are written only into an existing id
\* subdirectory, and the entry of a textured mesh that has the geometry file
\* has metadata, texture and thumbnail.
C15_WriteOrder ==
    /\ \A id \in DOMAIN cache :
          /\ "thumbnail" \in cache[id] => "texture" \in cache[id]
          /\ "texture" \in cache[id] => "image-info" \in cache[id]
          /\ ("mesh" \in cache[id]
                /\ \E a \in assets : a.stem = id /\ a.type = "textured")
                => {"image-info", "texture", "thumbnail"} \subseteq cache[id]
    /\ (InCall /\ pc # "cache_asset") => CurId \in DOMAIN cache

\* a failed build has left an entry with metadata and texture but without
\* the thumbnail
C15_Witness ==
    /\ Finished
    /\ PerAssetError
    /\ \E id \in DOMAIN cache : cache[id] = {"image-info", "texture"}

\* ids that an image and a mesh of the asset directory share
ImagesOf(files) == {q \in files : q.type \in {"jpg", "png"}}
MeshesOf(files) == {q \in files : q.type \in {"plain", "textured"}}
SharedIds(files) ==
    {a.stem : a \in ImagesOf(files)} \cap {a.stem : a \in MeshesOf(files)}

TypeOK ==
    /\ pc \in {"idle", "ensure_cache_dir", "build_asset_mapping",
               "serial_cacher", "cache_asset", "import", "image_info",
               "texture", "thumbnail", "mesh"}
    /\ i \in 0..MaxStem
    /\ DOMAIN cache \subseteq Stems
====
